---- MODULE Spec2Model ----
(***************************************************************************)
(* Verification model of the PDMS2 ingestion pipeline.                     *)
(*                                                                         *)
(*   SpecEnrich  helpers/enrichments.py   enrich_json_with_summaries       *)
(*   SpecMd      helpers/generate_markdown.py   generate_markdown          *)
(*   SpecPdfs    helpers/pdf_ingest.py    PDFProcessor.process_pdfs        *)
(*   SpecInsert  supabase_client_module/populate_database.py               *)
(*                                        insert_product                   *)
(*                                                                         *)
(* In SpecPdfs the enrich stage makes, for each partition file, the call   *)
(* of enrich_json_with_summaries that SpecEnrich models on its own.        *)
(*                                                                         *)
(* Python's None and a missing dictionary key are both written None: every *)
(* read the modelled code makes of such a field is a .get() that maps a    *)
(* missing key to None.                                                    *)
(***************************************************************************)
EXTENDS Integers, Sequences, FiniteSets, TLC

VARIABLES
    \* ---- enrich_json_with_summaries ----
    file,           \* the JSON file on disk: [valid, elems]
    json_data,      \* the list json.load returned (mutated in place)
    imageElements,  \* positions in json_data of the items of the image list
    textElements,   \* positions in json_data of the items of the text list
    idx,            \* enumerate() counter of the running for loop
    pc,             \* where the call is
    loaded,         \* history: json_data as it was loaded by this run
    calls,          \* history: positions handed to a summarizer, in call order
    returned,       \* history: position -> what the summarizer call returned
    writes,         \* history: json.dump calls completed by this run
    attempts,       \* history: open(json_file, 'w') calls made by this run
    lastDump,       \* history: len(calls) when the last json.dump completed
    persisted,      \* history: file content after the last completed write
    \* ---- generate_markdown ----
    chunks_data,      \* the argument json_data: the list of chunk dicts
    item_i,           \* position of the for loop over json_data
    markdown_content, \* the output built so far (a sequence of pieces)
    current_page,     \* the page cursor
    page_content,     \* the buffer of the page being accumulated
    md_pc,            \* where the call is
    \* ---- PDFProcessor.process_pdfs ----
    pdf_files,        \* the batch: the list of PDFs, as 1..n
    pp_pc,            \* the stage process_pdfs is in
    partitioned_dir,  \* 01_partitioned: the PDFs with a partition JSON file
    partition_failed, \* history: the PDFs whose partitioning threw
    json_files,       \* enrich_partitions: the listed files not yet visited
    json_file,        \* enrich_partitions: the file of the running call, or 0
    enriched,         \* history: the files whose enrichment call returned
    chunked_dir,      \* 02_chunked: the names of the chunk JSON files
    chunked_files,    \* cleanup_file_extensions: listed names not yet renamed
    annotate_i,       \* position of the for loop over pdf_files
    annotated,        \* history: the PDFs annotate_pdf_pages completed for
    \* ---- insert_product ----
    products,         \* the products table: row id -> product_name
    product_name,     \* product_info_copy['product_name']
    attempt,          \* the iteration of "for _ in range(3)", from 1
    existing_product, \* .data of the last select that answered, as row ids
    product_id,       \* the value returned, or 0
    ip_pc,            \* where the call is
    inserts,          \* history: insert requests the call has sent
    failures          \* history: attempts that ended in the except clause

enrichVars == <<file, json_data, imageElements, textElements, idx, pc,
                loaded, calls, returned, writes, attempts, lastDump,
                persisted>>

mdVars == <<chunks_data, item_i, markdown_content, current_page,
           page_content, md_pc>>

pdfsVars == <<pdf_files, pp_pc, partitioned_dir, partition_failed,
             json_files, json_file, enriched, chunked_dir, chunked_files,
             annotate_i, annotated>>

insertVars == <<products, product_name, attempt, existing_product,
               product_id, ip_pc, inserts, failures>>

vars == <<enrichVars, mdVars, pdfsVars, insertVars>>

notEnrich == <<mdVars, pdfsVars, insertVars>>
notMd == <<enrichVars, pdfsVars, insertVars>>
notPdfs == <<enrichVars, mdVars, insertVars>>
notInsert == <<enrichVars, mdVars, pdfsVars>>

\* ------------------------------------------------------------------ bounds
MaxLen == 2     \* elements in a partition JSON file
MaxChunks == 3  \* chunks handed to generate_markdown
MaxPage == 3    \* highest page number of an original element
MaxTitles == 5  \* chunks of an input made of one-title chunks only
MaxPdfs == 3    \* PDFs in a batch
MaxExts == 3    \* ".json" suffixes of a file name the chunker writes
MaxProducts == 2  \* rows of the products table when insert_product is called

\* ------------------------------------------------------------------ values
None == "<None>"
Missing == "<missing>"   \* a key that is not in the dictionary
NoPage == 0              \* None as a page number (pages are 1-based)
Failed == "<raised>"

\* Mutant: the test is "is not None": an empty string passes.
TruthyNotNone(v) == v # None

\* Python truthiness of an optional string: None and "" are falsy.
Truthy(v) == v # None /\ v # ""

\* What a summarizer call can return (the models' answers are not a
\* function of the input: two calls on the same input may differ).
Summaries == {"sum A", "sum B"}

\* One element of a partition JSON file as the partitioner writes it.
Element(t, x, b) ==
    [type |-> t, text |-> x, image_base64 |-> b, summary |-> None]

ElementDomain ==
    { Element("Image", "img text", b) : b \in {None, "", "b64"} }
    \cup { Element(t, "body", None) :
             t \in {"NarrativeText", "Title", "UncategorizedText"} }
    \cup { Element("NarrativeText", "", None) }
    \cup { Element("Table", "cells", "b64") }
    \cup { Element(t, "body", None) :
             t \in {"Header", "Footer", "ListItem", "Unknown"} }

SeqsUpTo(S, n) == UNION { [1..k -> S] : k \in 0..n }

TornFile == [valid |-> FALSE, elems |-> << >>]
ValidFile(s) == [valid |-> TRUE, elems |-> s]

\* ------------------------------------------------------- list comprehensions
RECURSIVE Filter(_, _, _)
Filter(s, i, types) ==
    IF i > Len(s) THEN << >>
    ELSE IF s[i].type \in types
         THEN <<i>> \o Filter(s, i + 1, types)
         ELSE Filter(s, i + 1, types)

ImageTypes == {"Image"}
TextTypes == {"NarrativeText", "Title", "UncategorizedText"}

\* Mutant: the image list is built last element first.
ImageListReversed(s) ==
    LET l == Filter(s, 1, ImageTypes)
    IN  [k \in 1..Len(l) |-> l[Len(l) + 1 - k]]

ImageList(s) == Filter(s, 1, ImageTypes)
TextList(s) == Filter(s, 1, TextTypes)

\* ------------------------------------------------------------ enrich: state
EnrichRest == {"idle", "done", "raised", "killed"}
EnrichRunning == {"img_loop", "img_call", "img_open", "img_dump",
                  "txt_loop", "txt_call", "txt_open", "txt_dump"}

EnrichIdle ==
    /\ file = ValidFile(<< >>)
    /\ persisted = ValidFile(<< >>)
    /\ json_data = << >>
    /\ imageElements = << >>
    /\ textElements = << >>
    /\ idx = 0
    /\ pc = "idle"
    /\ loaded = << >>
    /\ calls = << >>
    /\ returned = << >>
    /\ writes = 0
    /\ attempts = 0
    /\ lastDump = 0

MdIdle ==
    /\ chunks_data = << >>
    /\ item_i = 0
    /\ markdown_content = << >>
    /\ current_page = NoPage
    /\ page_content = << >>
    /\ md_pc = "idle"

PdfsIdle ==
    /\ pdf_files = << >>
    /\ pp_pc = "idle"
    /\ partitioned_dir = {}
    /\ partition_failed = {}
    /\ json_files = {}
    /\ json_file = 0
    /\ enriched = {}
    /\ chunked_dir = {}
    /\ chunked_files = {}
    /\ annotate_i = 0
    /\ annotated = {}

InsertIdle ==
    /\ products = << >>
    /\ product_name = ""
    /\ attempt = 0
    /\ existing_product = None
    /\ product_id = 0
    /\ ip_pc = "idle"
    /\ inserts = 0
    /\ failures = 0

InitEnrich ==
    /\ MdIdle
    /\ PdfsIdle
    /\ InsertIdle
    /\ \E s \in SeqsUpTo(ElementDomain, MaxLen) :
         /\ file = ValidFile(s)
         /\ persisted = ValidFile(s)
    /\ json_data = << >>
    /\ imageElements = << >>
    /\ textElements = << >>
    /\ idx = 0
    /\ pc = "idle"
    /\ loaded = << >>
    /\ calls = << >>
    /\ returned = << >>
    /\ writes = 0
    /\ attempts = 0
    /\ lastDump = 0

\* Locals of a call that has ended (returned, raised or was killed) are gone.
DropLocals ==
    /\ json_data' = << >>
    /\ imageElements' = << >>
    /\ textElements' = << >>
    /\ idx' = 0

\* A call of enrich_json_with_summaries can start: on its own (a run, or a
\* new run after one that ended), or as the call enrich_partitions has made
\* for json_file (pdf_ingest.py line 156).
EnrichCallable ==
    IF pp_pc = "idle" THEN pc \in EnrichRest
    ELSE json_file # 0 /\ pc = "idle"

\* ---- lines 30-35: open, json.load, the two list comprehensions
Load ==
    /\ EnrichCallable
    /\ file.valid
    /\ json_data' = file.elems
    /\ loaded' = file.elems
    /\ imageElements' = ImageList(file.elems)
    /\ textElements' = TextList(file.elems)
    /\ idx' = 1
    /\ pc' = "img_loop"
    /\ calls' = << >>
    /\ returned' = [i \in 1..Len(file.elems) |-> None]
    /\ writes' = 0
    /\ attempts' = 0
    /\ lastDump' = 0
    /\ persisted' = file
    /\ UNCHANGED file

    /\ UNCHANGED notEnrich
\* ---- lines 30-31: open() or json.load raises (unreadable or torn file);
\* the exception leaves enrich_json_with_summaries.
LoadRaises ==
    /\ EnrichCallable
    /\ pc' = "raised"
    /\ DropLocals
    /\ loaded' = << >>
    /\ calls' = << >>
    /\ returned' = << >>
    /\ writes' = 0
    /\ attempts' = 0
    /\ lastDump' = 0
    /\ persisted' = file
    /\ UNCHANGED file

    /\ UNCHANGED notEnrich
\* Mutant: the image description is stored as a summary, the text is kept.
StoreImageSummaryAsSummary(item, summary) == [item EXCEPT !.summary = summary]

\* ---- line 55: item['text'] = summary
StoreImageSummary(item, summary) == [item EXCEPT !.text = summary]

\* Mutant: the text summary replaces the text, as for images.
StoreTextSummaryAsText(item, summary) == [item EXCEPT !.text = summary]

\* ---- line 81: item['summary'] = summary
StoreTextSummary(item, summary) == [item EXCEPT !.summary = summary]

\* ---- lines 59, 85: json.dump(json_data, f, ...) of the whole list; what a
\* later json.load reads back (strings and nulls survive the round trip).
Dump(data) == ValidFile(data)

\* ---- lines 58, 84: open(json_file, 'w') truncates the file before any
\* byte of the new content is written.
Truncated(f) == TornFile

ImagePos == imageElements[idx]
TextPos == textElements[idx]

\* ---- line 49: the for loop over imageElements is exhausted
ImagesDone ==
    /\ pc = "img_loop"
    /\ idx > Len(imageElements)
    /\ pc' = "txt_loop"
    /\ idx' = 1
    /\ UNCHANGED <<file, json_data, imageElements, textElements, loaded,
                   calls, returned, writes, persisted,
                   attempts, lastDump>>

    /\ UNCHANGED notEnrich
\* ---- lines 51-52, 65-67: no image_base64: warn and go to the next item
ImageSkip ==
    /\ pc = "img_loop"
    /\ idx <= Len(imageElements)
    /\ ~Truthy(json_data[ImagePos].image_base64)
    /\ idx' = idx + 1
    /\ UNCHANGED <<file, json_data, imageElements, textElements, pc, loaded,
                   calls, returned, writes, persisted,
                   attempts, lastDump>>

    /\ UNCHANGED notEnrich
\* ---- lines 51-54: summarize_image(image_base64) is called
ImageCall ==
    /\ pc = "img_loop"
    /\ idx <= Len(imageElements)
    /\ Truthy(json_data[ImagePos].image_base64)
    /\ pc' = "img_call"
    /\ calls' = Append(calls, ImagePos)
    /\ UNCHANGED <<file, json_data, imageElements, textElements, idx, loaded,
                   returned, writes, persisted,
                   attempts, lastDump>>

    /\ UNCHANGED notEnrich
\* Mutant: the save after each image is dropped (saving is left to a later
\* element): the loop goes straight on to the next item.
ImageReturnsNoSave ==
    /\ pc = "img_call"
    /\ \E s \in Summaries :
         /\ json_data' = [json_data EXCEPT
                            ![ImagePos] = StoreImageSummary(@, s)]
         /\ returned' = [returned EXCEPT ![ImagePos] = s]
    /\ pc' = "img_loop"
    /\ idx' = idx + 1
    /\ UNCHANGED <<file, imageElements, textElements, loaded, calls,
                   writes, persisted, attempts, lastDump>>
    /\ UNCHANGED notEnrich

\* ---- lines 54-55: the call returns and the item is updated
ImageReturns ==
    /\ pc = "img_call"
    /\ \E s \in Summaries :
         /\ json_data' = [json_data EXCEPT
                            ![ImagePos] = StoreImageSummary(@, s)]
         /\ returned' = [returned EXCEPT ![ImagePos] = s]
    /\ pc' = "img_open"
    /\ UNCHANGED <<file, imageElements, textElements, idx, loaded, calls,
                   writes, persisted,
                   attempts, lastDump>>

    /\ UNCHANGED notEnrich
\* Mutant: no except clause: the summarizer's exception leaves the function.
ImageRaisesPropagates ==
    /\ pc = "img_call"
    /\ returned' = [returned EXCEPT ![ImagePos] = Failed]
    /\ pc' = "raised"
    /\ DropLocals
    /\ UNCHANGED <<file, loaded, calls, writes, persisted,
                   attempts, lastDump>>
    /\ UNCHANGED notEnrich

\* ---- lines 54, 62-64: the call raises; logged, next item
ImageRaises ==
    /\ pc = "img_call"
    /\ returned' = [returned EXCEPT ![ImagePos] = Failed]
    /\ pc' = "img_loop"
    /\ idx' = idx + 1
    /\ UNCHANGED <<file, json_data, imageElements, textElements, loaded,
                   calls, writes, persisted,
                   attempts, lastDump>>

    /\ UNCHANGED notEnrich
\* ---- line 58: open(json_file, 'w') succeeds
ImageOpen ==
    /\ pc = "img_open"
    /\ file' = Truncated(file)
    /\ pc' = "img_dump"
    /\ attempts' = attempts + 1
    /\ UNCHANGED <<json_data, imageElements, textElements, idx, loaded,
                   calls, returned, writes, persisted,
                   lastDump>>

    /\ UNCHANGED notEnrich
\* ---- lines 58, 62-64: open raises; logged, next item
ImageOpenRaises ==
    /\ pc = "img_open"
    /\ pc' = "img_loop"
    /\ idx' = idx + 1
    /\ attempts' = attempts + 1
    /\ UNCHANGED <<file, json_data, imageElements, textElements, loaded,
                   calls, returned, writes, persisted,
                   lastDump>>

    /\ UNCHANGED notEnrich
\* ---- lines 59-61: json.dump completes and the file is closed
ImageDump ==
    /\ pc = "img_dump"
    /\ file' = Dump(json_data)
    /\ persisted' = Dump(json_data)
    /\ writes' = writes + 1
    /\ pc' = "img_loop"
    /\ idx' = idx + 1
    /\ lastDump' = Len(calls)
    /\ UNCHANGED <<json_data, imageElements, textElements, loaded, calls,
                   returned,
                   attempts>>

    /\ UNCHANGED notEnrich
\* Mutant: the except clause puts the element back as it was loaded.
ImageDumpRaisesRollsBack ==
    /\ pc = "img_dump"
    /\ pc' = "img_loop"
    /\ idx' = idx + 1
    /\ json_data' = [json_data EXCEPT ![ImagePos] = loaded[ImagePos]]
    /\ UNCHANGED <<file, imageElements, textElements, loaded,
                   calls, returned, writes, persisted,
                   attempts, lastDump>>
    /\ UNCHANGED notEnrich

\* ---- lines 59, 62-64: the write raises part-way; logged, next item
ImageDumpRaises ==
    /\ pc = "img_dump"
    /\ pc' = "img_loop"
    /\ idx' = idx + 1
    /\ UNCHANGED <<file, json_data, imageElements, textElements, loaded,
                   calls, returned, writes, persisted,
                   attempts, lastDump>>

    /\ UNCHANGED notEnrich
\* ---- line 75: the for loop over textElements is exhausted; line 94
TextsDone ==
    /\ pc = "txt_loop"
    /\ idx > Len(textElements)
    /\ pc' = "done"
    /\ UNCHANGED <<file, json_data, imageElements, textElements, idx, loaded,
                   calls, returned, writes, persisted,
                   attempts, lastDump>>

    /\ UNCHANGED notEnrich
\* ---- lines 77-78, 91-92: empty text: warn and go to the next item
TextSkip ==
    /\ pc = "txt_loop"
    /\ idx <= Len(textElements)
    /\ ~Truthy(json_data[TextPos].text)
    /\ idx' = idx + 1
    /\ UNCHANGED <<file, json_data, imageElements, textElements, pc, loaded,
                   calls, returned, writes, persisted,
                   attempts, lastDump>>

    /\ UNCHANGED notEnrich
\* ---- lines 77-80: summarize_text(text_content) is called
TextCall ==
    /\ pc = "txt_loop"
    /\ idx <= Len(textElements)
    /\ Truthy(json_data[TextPos].text)
    /\ pc' = "txt_call"
    /\ calls' = Append(calls, TextPos)
    /\ UNCHANGED <<file, json_data, imageElements, textElements, idx, loaded,
                   returned, writes, persisted,
                   attempts, lastDump>>

    /\ UNCHANGED notEnrich
\* ---- lines 80-81: the call returns and the item is updated
TextReturns ==
    /\ pc = "txt_call"
    /\ \E s \in Summaries :
         /\ json_data' = [json_data EXCEPT
                            ![TextPos] = StoreTextSummary(@, s)]
         /\ returned' = [returned EXCEPT ![TextPos] = s]
    /\ pc' = "txt_open"
    /\ UNCHANGED <<file, imageElements, textElements, idx, loaded, calls,
                   writes, persisted,
                   attempts, lastDump>>

    /\ UNCHANGED notEnrich
\* ---- lines 80, 88-90: the call raises; logged, next item
TextRaises ==
    /\ pc = "txt_call"
    /\ returned' = [returned EXCEPT ![TextPos] = Failed]
    /\ pc' = "txt_loop"
    /\ idx' = idx + 1
    /\ UNCHANGED <<file, json_data, imageElements, textElements, loaded,
                   calls, writes, persisted,
                   attempts, lastDump>>

    /\ UNCHANGED notEnrich
\* ---- line 84: open(json_file, 'w') succeeds
TextOpen ==
    /\ pc = "txt_open"
    /\ file' = Truncated(file)
    /\ pc' = "txt_dump"
    /\ attempts' = attempts + 1
    /\ UNCHANGED <<json_data, imageElements, textElements, idx, loaded,
                   calls, returned, writes, persisted,
                   lastDump>>

    /\ UNCHANGED notEnrich
\* ---- lines 84, 88-90: open raises; logged, next item
TextOpenRaises ==
    /\ pc = "txt_open"
    /\ pc' = "txt_loop"
    /\ idx' = idx + 1
    /\ attempts' = attempts + 1
    /\ UNCHANGED <<file, json_data, imageElements, textElements, loaded,
                   calls, returned, writes, persisted,
                   lastDump>>

    /\ UNCHANGED notEnrich
\* ---- lines 85-87: json.dump completes and the file is closed
TextDump ==
    /\ pc = "txt_dump"
    /\ file' = Dump(json_data)
    /\ persisted' = Dump(json_data)
    /\ writes' = writes + 1
    /\ pc' = "txt_loop"
    /\ idx' = idx + 1
    /\ lastDump' = Len(calls)
    /\ UNCHANGED <<json_data, imageElements, textElements, loaded, calls,
                   returned,
                   attempts>>

    /\ UNCHANGED notEnrich
\* ---- lines 85, 88-90: the write raises part-way; logged, next item
TextDumpRaises ==
    /\ pc = "txt_dump"
    /\ pc' = "txt_loop"
    /\ idx' = idx + 1
    /\ UNCHANGED <<file, json_data, imageElements, textElements, loaded,
                   calls, returned, writes, persisted,
                   attempts, lastDump>>

    /\ UNCHANGED notEnrich
\* ---- the process is killed while the call is running (spec 4.1 step 4,
\* section 5: "natural process termination"); only the file survives (and
\* the record of what the last completed write left in it).
Kill ==
    /\ pc \in EnrichRunning
    /\ pc' = "killed"
    /\ DropLocals
    /\ loaded' = << >>
    /\ calls' = << >>
    /\ returned' = << >>
    /\ writes' = 0
    /\ attempts' = 0
    /\ lastDump' = 0
    /\ UNCHANGED <<file, persisted>>

    /\ UNCHANGED notEnrich
NextEnrich ==
    \/ Load \/ LoadRaises
    \/ ImagesDone \/ ImageSkip \/ ImageCall \/ ImageReturns \/ ImageRaises
    \/ ImageOpen \/ ImageOpenRaises \/ ImageDump \/ ImageDumpRaises
    \/ TextsDone \/ TextSkip \/ TextCall \/ TextReturns \/ TextRaises
    \/ TextOpen \/ TextOpenRaises \/ TextDump \/ TextDumpRaises
    \/ Kill

SpecEnrich == InitEnrich /\ [][NextEnrich]_vars

\* ======================================================= generate_markdown
\* The output is kept as the sequence of the pieces of text the code
\* appends, each piece holding the values formatted into it.
Piece(k, n, p, x, y, z, l) ==
    [k |-> k, id |-> n, page |-> p, x |-> x, y |-> y, z |-> z, lines |-> l]

\* ---- line 19: PAGE_FOOTER.format(current_page=...)
PageFooter(p) == Piece("page_footer", 0, p, "", "", "", << >>)

\* ---- line 49: " > " + "\n> ".join(item['text'].splitlines()); a text is
\* kept as the list splitlines() gives; each output line is <<prefix, line>>.
QuoteLines(text) ==
    IF text = << >> THEN << <<" > ", "">> >>
    ELSE [j \in 1..Len(text) |-> <<IF j = 1 THEN " > " ELSE "> ", text[j]>>]

\* dict.get(key, default) for a key that may be missing
GetOr(v, default) == IF v = Missing THEN default ELSE v

\* ---- lines 78-79: orig_element['text'] is a KeyError when the key is
\* missing (the other reads of the loop body are .get())
ElementRaises(oe) ==
    /\ GetOr(oe.type, "Unknown") \in {"Table", "Image"}
    /\ Truthy(GetOr(oe.image, None))
    /\ oe.text = Missing

\* Mutant: the text is shown as it is, empty or not.
PlaceholderTextRaw(content) == content

\* ---- line 83: content or '?Unknown'
PlaceholderText(content) == IF Truthy(content) THEN content ELSE "?Unknown"

\* ---- line 61: the line showing the element's type and id
ElementHead(oe) ==
    Piece("elem_head", oe.id, 0, GetOr(oe.type, "Unknown"), "", "", << >>)

\* ---- lines 57-58, 62-83: the markup chosen by the element's type
ElementBody(item, oe) ==
    LET category == GetOr(oe.type, "Unknown")
        content == GetOr(oe.text, "No content")
        One(k, x) == <<Piece(k, 0, 0, x, "", "", << >>)>>
        image_base64 == GetOr(oe.image, None)
        image_format ==
            IF GetOr(oe.image_mime_type, None) = "image/png"
            THEN "png" ELSE "jpeg"
    IN  IF category = "Title" THEN One("title", content)
        ELSE IF category = "Header" THEN One("header", content)
        ELSE IF category = "Footer" THEN One("footer", content)
        ELSE IF category \in {"NarrativeText", "UncategorizedText", "Title"}
             THEN IF item.summary # Missing
                  THEN One("summary_callout", item.summary)
                  ELSE << >>
        ELSE IF category = "ListItem" THEN One("list_item", content)
        ELSE IF category = "Table" \/ category = "Image"
             THEN IF Truthy(image_base64)
                  THEN <<Piece("image", 0, 0, image_base64, oe.text,
                               image_format, << >>)>>
                  ELSE One("image_placeholder", PlaceholderText(content))
        ELSE << >>

\* Mutant: the line showing the element's type and id is not written.
RenderElementNoHead(item, oe) == ElementBody(item, oe)

\* ---- lines 57-83: the rendering of one original element
RenderElement(item, oe) == <<ElementHead(oe)>> \o ElementBody(item, oe)

\* Mutant: the original elements are rendered last to first.
RECURSIVE RenderElementsReversed(_, _, _)
RenderElementsReversed(item, elems, j) ==
    IF j > Len(elems) THEN << >>
    ELSE RenderElementsReversed(item, elems, j + 1)
           \o RenderElement(item, elems[j])

\* ---- line 56: for orig_element in item['orig_elements']
RECURSIVE RenderElements(_, _, _)
RenderElements(item, elems, j) ==
    IF j > Len(elems) THEN << >>
    ELSE RenderElement(item, elems[j]) \o RenderElements(item, elems, j + 1)

\* ---- lines 51-54, 85: the <details> tags a piece opens and the </details>
\* tags it closes (line 52 opens and closes the chunk text block; line 85
\* closes the original elements block and the chunk block)
DetailsOpened(piece) ==
    IF piece.k \in {"chunk_open", "chunk_text", "orig_open"} THEN 1 ELSE 0

DetailsClosed(piece) ==
    IF piece.k = "chunk_text" THEN 1
    ELSE IF piece.k = "chunk_close" THEN 2
    ELSE 0

\* Mutant: the closing tags are written by the branches of the type
\* dispatch: a chunk that ends with an element no branch takes is left open.
RenderChunkCloseInChain(item) ==
    << Piece("chunk_open", item.id, 0, "", "", "", << >>),
       Piece("chunk_text", 0, 0, "", "", "", QuoteLines(item.text)),
       Piece("orig_open", 0, 0, "", "", "", << >>) >>
    \o RenderElements(item, item.orig_elements, 1)
    \o IF ElementBody(item, item.orig_elements[Len(item.orig_elements)])
            = << >>
       THEN << >>
       ELSE << Piece("chunk_close", 0, 0, "", "", "", << >>) >>

\* ---- lines 49-85: what one chunk appends to page_content
RenderChunk(item) ==
    << Piece("chunk_open", item.id, 0, "", "", "", << >>),
       Piece("chunk_text", 0, 0, "", "", "", QuoteLines(item.text)),
       Piece("orig_open", 0, 0, "", "", "", << >>) >>
    \o RenderElements(item, item.orig_elements, 1)
    \o << Piece("chunk_close", 0, 0, "", "", "", << >>) >>

\* ---- line 41: item['orig_elements'][0].get('page_number')
PageNumber(item) == item.orig_elements[1].page_number

\* Mutant: the cursor is not tested for None.
PageBreakNoNoneTest(page_number, cur) == page_number # cur

\* Mutant: a page is completed only when the page number goes up.
PageBreakOnlyForward(page_number, cur) == cur # NoPage /\ page_number > cur

\* ---- line 43: a page is completed
PageBreak(page_number, cur) == page_number # cur /\ cur # NoPage

\* Mutant: an empty list is skipped like a missing or null container.
HasNoOrigElementsOrEmpty(item) ==
    item.orig \in {"absent", "null"} \/ item.orig_elements = << >>

\* ---- line 37
HasNoOrigElements(item) == item.orig \in {"absent", "null"}

\* ---- line 41 ([0] of an empty list) and line 79
ChunkRaises(item) ==
    \/ item.orig_elements = << >>
    \/ \E j \in DOMAIN item.orig_elements : ElementRaises(item.orig_elements[j])

\* ------------------------------------------------------------ md: inputs
OrigElement(t, x, img, mime, p) ==
    [id |-> 0, type |-> t, text |-> x, image |-> img,
     image_mime_type |-> mime, page_number |-> p, summary |-> None]

Chunk(kind, elems, sum) ==
    [id |-> 0, text |-> <<"chunk text">>, type |-> "CompositeElement",
     orig |-> kind, orig_elements |-> elems, summary |-> sum]

\* Chunks that make up the inputs of several chunks.
SmallChunkDomain ==
    { Chunk("absent", << >>, Missing), Chunk("null", << >>, Missing),
      Chunk("list", << >>, Missing) }
    \cup { Chunk("list", <<OrigElement("Title", "heading", None, None, p)>>,
                 Missing) : p \in 0..MaxPage }
    \cup { Chunk("list",
                 <<OrigElement("NarrativeText", "body", None, None, p),
                   OrigElement("Image", "caption", None, None, p)>>,
                 Missing) : p \in 1..MaxPage }

\* Original elements of every type, with and without text and image.
RichElementDomain ==
    { OrigElement(t, x, None, None, 1) :
        t \in {"Title", "Header", "Footer", "NarrativeText",
               "UncategorizedText", "ListItem", "FigureCaption", Missing},
        x \in {"body", Missing} }
    \cup { OrigElement(t, x, None, None, 1) :
        t \in {"Table", "Image"}, x \in {"body", "", None, Missing} }
    \cup { OrigElement(t, x, "b64", mime, 1) :
        t \in {"Table", "Image"}, x \in {"body", "", None, Missing},
        mime \in {"image/png", "image/jpeg"} }

RichChunkDomain ==
    { Chunk("list", <<oe>>, sum) :
        oe \in RichElementDomain, sum \in {Missing, "chunk summary"} }

\* ids are unique: a chunk gets its position, an element 10 * chunk + position
WithIds(s) ==
    [c \in DOMAIN s |->
       [s[c] EXCEPT !.id = c,
                    !.orig_elements =
                       [j \in DOMAIN s[c].orig_elements |->
                          [s[c].orig_elements[j] EXCEPT !.id = 10 * c + j]]]]

\* One-title chunks: the inputs that only vary the page numbers.
TitleChunkDomain ==
    { Chunk("list", <<OrigElement("Title", "heading", None, None, p)>>,
            Missing) : p \in 1..MaxPage }

MdInputs ==
    { WithIds(s) : s \in SeqsUpTo(SmallChunkDomain, MaxChunks) }
    \cup { WithIds(s) : s \in SeqsUpTo(TitleChunkDomain, MaxTitles) }
    \cup { WithIds(<<c>>) : c \in RichChunkDomain }

\* ---- lines 32-34: the state on entry of the for loop
InitMd ==
    /\ EnrichIdle
    /\ PdfsIdle
    /\ InsertIdle
    /\ chunks_data \in MdInputs
    /\ item_i = 1
    /\ markdown_content = <<Piece("nl", 0, 0, "", "", "", << >>)>>
    /\ current_page = NoPage
    /\ page_content = << >>
    /\ md_pc = "loop"

Item == chunks_data[item_i]

\* Mutant: the skipped chunk resets the page cursor.
MdSkipResetsCursor ==
    /\ md_pc = "loop"
    /\ item_i <= Len(chunks_data)
    /\ HasNoOrigElements(Item)
    /\ item_i' = item_i + 1
    /\ current_page' = NoPage
    /\ UNCHANGED <<chunks_data, markdown_content, page_content, md_pc>>
    /\ UNCHANGED notMd

\* ---- lines 37-39: no orig_elements: warn and continue
MdSkip ==
    /\ md_pc = "loop"
    /\ item_i <= Len(chunks_data)
    /\ HasNoOrigElements(Item)
    /\ item_i' = item_i + 1
    /\ UNCHANGED <<chunks_data, markdown_content, current_page,
                   page_content, md_pc>>
    /\ UNCHANGED notMd

\* ---- lines 41, 79: IndexError / KeyError leaves generate_markdown; nothing
\* is returned
MdRaise ==
    /\ md_pc = "loop"
    /\ item_i <= Len(chunks_data)
    /\ ~HasNoOrigElements(Item)
    /\ ChunkRaises(Item)
    /\ md_pc' = "raised"
    /\ markdown_content' = << >>
    /\ page_content' = << >>
    /\ current_page' = NoPage
    /\ UNCHANGED <<chunks_data, item_i>>
    /\ UNCHANGED notMd

\* ---- lines 41-85: one chunk is rendered, after the page it completes, if
\* it does, is flushed with its footer
MdRender ==
    /\ md_pc = "loop"
    /\ item_i <= Len(chunks_data)
    /\ ~HasNoOrigElements(Item)
    /\ ~ChunkRaises(Item)
    /\ LET page_number == PageNumber(Item)
       IN  /\ IF PageBreak(page_number, current_page)
              THEN /\ markdown_content' = markdown_content \o page_content
                                            \o <<PageFooter(current_page)>>
                   /\ page_content' = RenderChunk(Item)
              ELSE /\ markdown_content' = markdown_content
                   /\ page_content' = page_content \o RenderChunk(Item)
           /\ current_page' = page_number
    /\ item_i' = item_i + 1
    /\ UNCHANGED <<chunks_data, md_pc>>
    /\ UNCHANGED notMd

\* ---- lines 87-92: the last page is flushed and the text is returned
MdReturn ==
    /\ md_pc = "loop"
    /\ item_i > Len(chunks_data)
    /\ IF page_content # << >>
       THEN markdown_content' = markdown_content \o page_content
                                  \o <<PageFooter(current_page)>>
       ELSE markdown_content' = markdown_content
    /\ page_content' = << >>
    /\ md_pc' = "done"
    /\ UNCHANGED <<chunks_data, item_i, current_page>>
    /\ UNCHANGED notMd

NextMd == MdSkip \/ MdRaise \/ MdRender \/ MdReturn

SpecMd == InitMd /\ [][NextMd]_vars

\* ============================================= PDFProcessor.process_pdfs
\* A file of 02_chunked: <base> followed by exts times ".json".
ChunkFile(f, k) == [base |-> f, exts |-> k]

\* ---- line 165: f.endswith('.json.json')
EndsWithDoubleJson(name) == name.exts >= 2

\* ---- line 170: file.replace('.json.json', '.json') replaces every
\* non-overlapping occurrence, left to right
ReplaceDoubleJson(name) ==
    [name EXCEPT !.exts = name.exts - (name.exts \div 2)]

Batch == {pdf_files[i] : i \in DOMAIN pdf_files}

\* ---- line 107: the call; 02_chunked may hold files of an earlier batch
InitPdfs ==
    /\ EnrichIdle
    /\ MdIdle
    /\ InsertIdle
    /\ \E n \in 1..MaxPdfs :
         /\ pdf_files = [i \in 1..n |-> i]
         /\ chunked_dir \in SUBSET {ChunkFile(f, 1) : f \in 1..n}
    /\ pp_pc = "partition"
    /\ partitioned_dir = {}
    /\ partition_failed = {}
    /\ json_files = {}
    /\ json_file = 0
    /\ enriched = {}
    /\ chunked_files = {}
    /\ annotate_i = 0
    /\ annotated = {}

\* ---- lines 113-114, 178-189: the partitioning pipeline runs and returns
PartitionReturns ==
    /\ pp_pc = "partition"
    /\ partitioned_dir' = Batch
    /\ pp_pc' = "enrich_list"
    /\ UNCHANGED <<pdf_files, json_file,
                   partition_failed, json_files, enriched,
                   chunked_dir, chunked_files, annotate_i, annotated>>
    /\ UNCHANGED notPdfs

\* ---- lines 114, 178-189: the partitioning of some file throws; neither
\* _run_pipeline nor process_pdfs has a handler, the exception leaves
\* process_pdfs (the files the pipeline had finished keep their JSON)
PartitionThrows ==
    /\ pp_pc = "partition"
    /\ \E bad \in SUBSET Batch \ {{}} :
         /\ partition_failed' = bad
         /\ partitioned_dir' \in SUBSET (Batch \ bad)
    /\ pp_pc' = "raised"
    /\ UNCHANGED <<pdf_files, json_file,
                   json_files, enriched, chunked_dir,
                   chunked_files, annotate_i, annotated>>
    /\ UNCHANGED notPdfs

\* ---- lines 151-152: get_files_with_extension(partitioned_dir, '.json')
EnrichList ==
    /\ pp_pc = "enrich_list"
    /\ json_files' = partitioned_dir
    /\ pp_pc' = "enrich"
    /\ UNCHANGED <<pdf_files, json_file,
                   partitioned_dir, partition_failed, enriched,
                   chunked_dir, chunked_files, annotate_i, annotated>>
    /\ UNCHANGED notPdfs

\* What a partition JSON file can hold when enrich_partitions comes to it:
\* nothing json.load can parse, or a list of elements.
PartitionFileDomain ==
    {TornFile}
    \cup { ValidFile(s) :
             s \in { << >>,
                     <<Element("Image", "img text", "b64")>>,
                     <<Element("Image", "img text", None)>>,
                     <<Element("NarrativeText", "body", None)>>,
                     <<Element("NarrativeText", "", None)>> } }

\* The locals and the record of a call that has ended are dropped.
EnrichForget ==
    /\ file' = ValidFile(<< >>)
    /\ persisted' = ValidFile(<< >>)
    /\ DropLocals
    /\ pc' = "idle"
    /\ loaded' = << >>
    /\ calls' = << >>
    /\ returned' = << >>
    /\ writes' = 0
    /\ attempts' = 0
    /\ lastDump' = 0

\* ---- lines 154-156: the next file is taken and
\* enrich_json_with_summaries(json_file) is called (os.listdir gives the
\* files in no particular order)
EnrichFileCall ==
    /\ pp_pc = "enrich"
    /\ json_file = 0
    /\ \E f \in json_files :
         /\ json_file' = f
         /\ json_files' = json_files \ {f}
    /\ \E content \in PartitionFileDomain :
         /\ file' = content
         /\ persisted' = content
    /\ UNCHANGED <<json_data, imageElements, textElements, idx, pc, loaded,
                   calls, returned, writes, attempts, lastDump>>
    /\ UNCHANGED <<pdf_files, pp_pc, partitioned_dir, partition_failed,
                   enriched, chunked_dir, chunked_files, annotate_i,
                   annotated>>
    /\ UNCHANGED <<mdVars, insertVars>>

\* Mutant: no except clause in enrich_partitions: the exception leaves it,
\* and process_pdfs.
EnrichFileRaisesPropagates ==
    /\ pp_pc = "enrich"
    /\ json_file # 0
    /\ pc = "raised"
    /\ pp_pc' = "raised"
    /\ json_file' = 0
    /\ EnrichForget
    /\ UNCHANGED <<pdf_files, partitioned_dir, partition_failed, json_files,
                   enriched, chunked_dir, chunked_files, annotate_i,
                   annotated>>
    /\ UNCHANGED <<mdVars, insertVars>>

\* ---- line 156: the call returns; next file
EnrichFileReturns ==
    /\ pp_pc = "enrich"
    /\ json_file # 0
    /\ pc = "done"
    /\ enriched' = enriched \cup {json_file}
    /\ json_file' = 0
    /\ EnrichForget
    /\ UNCHANGED <<pdf_files, pp_pc, partitioned_dir, partition_failed,
                   json_files, chunked_dir, chunked_files, annotate_i,
                   annotated>>
    /\ UNCHANGED <<mdVars, insertVars>>

\* ---- lines 156-159: the call raises; caught and logged, next file
EnrichFileRaises ==
    /\ pp_pc = "enrich"
    /\ json_file # 0
    /\ pc = "raised"
    /\ json_file' = 0
    /\ EnrichForget
    /\ UNCHANGED <<pdf_files, pp_pc, partitioned_dir, partition_failed,
                   json_files, enriched, chunked_dir, chunked_files,
                   annotate_i, annotated>>
    /\ UNCHANGED <<mdVars, insertVars>>

\* Mutant: chunking does not wait for the enrichment of the listed files.
EnrichDoneEarly ==
    /\ pp_pc = "enrich"
    /\ pp_pc' = "chunk"
    /\ UNCHANGED <<pdf_files, json_file, partitioned_dir, partition_failed,
                   json_files, enriched, chunked_dir, chunked_files,
                   annotate_i, annotated>>
    /\ UNCHANGED notPdfs

\* ---- line 154: the loop over json_files is exhausted
EnrichDone ==
    /\ pp_pc = "enrich"
    /\ json_files = {}
    /\ json_file = 0
    /\ pp_pc' = "chunk"
    /\ UNCHANGED <<pdf_files, json_file,
                   partitioned_dir, partition_failed, json_files,
                   enriched, chunked_dir, chunked_files, annotate_i,
                   annotated>>
    /\ UNCHANGED notPdfs

\* ---- lines 125-131: the chunking pipeline runs and returns; every
\* partition file gets a chunk file, written with one or more ".json"
ChunkReturns ==
    /\ pp_pc = "chunk"
    /\ \E exts \in [partitioned_dir -> 1..MaxExts] :
         chunked_dir' = chunked_dir
                          \cup {ChunkFile(f, exts[f]) : f \in partitioned_dir}
    /\ pp_pc' = "cleanup_list"
    /\ UNCHANGED <<pdf_files, json_file,
                   partitioned_dir, partition_failed, json_files,
                   enriched, chunked_files, annotate_i, annotated>>
    /\ UNCHANGED notPdfs

\* ---- line 131: the chunking pipeline throws; no handler
ChunkThrows ==
    /\ pp_pc = "chunk"
    /\ pp_pc' = "raised"
    /\ UNCHANGED <<pdf_files, json_file,
                   partitioned_dir, partition_failed, json_files,
                   enriched, chunked_dir, chunked_files, annotate_i,
                   annotated>>
    /\ UNCHANGED notPdfs

\* ---- lines 163-166: the names ending in .json.json are listed
CleanupList ==
    /\ pp_pc = "cleanup_list"
    /\ chunked_files' = {name \in chunked_dir : EndsWithDoubleJson(name)}
    /\ pp_pc' = "cleanup"
    /\ UNCHANGED <<pdf_files, json_file,
                   partitioned_dir, partition_failed, json_files,
                   enriched, chunked_dir, annotate_i, annotated>>
    /\ UNCHANGED notPdfs

\* ---- lines 168-171: os.rename(old_path, new_path) succeeds (on POSIX it
\* replaces a file that already has the new name)
CleanupRename ==
    /\ pp_pc = "cleanup"
    /\ \E name \in chunked_files :
         /\ chunked_files' = chunked_files \ {name}
         /\ chunked_dir' = (chunked_dir \ {name}) \cup {ReplaceDoubleJson(name)}
    /\ UNCHANGED <<pdf_files, json_file,
                   pp_pc, partitioned_dir, partition_failed,
                   json_files, enriched, annotate_i, annotated>>
    /\ UNCHANGED notPdfs

\* ---- line 171: os.rename raises (the new name exists, on Windows; or any
\* OSError); cleanup_file_extensions has no handler, nor has process_pdfs
CleanupRenameRaises ==
    /\ pp_pc = "cleanup"
    /\ chunked_files # {}
    /\ pp_pc' = "raised"
    /\ UNCHANGED <<pdf_files, json_file,
                   partitioned_dir, partition_failed, json_files,
                   enriched, chunked_dir, chunked_files, annotate_i,
                   annotated>>
    /\ UNCHANGED notPdfs

\* ---- lines 168, 173-176: the loop is exhausted; the count is printed
CleanupDone ==
    /\ pp_pc = "cleanup"
    /\ chunked_files = {}
    /\ pp_pc' = "annotate"
    /\ annotate_i' = 1
    /\ UNCHANGED <<pdf_files, json_file,
                   partitioned_dir, partition_failed, json_files,
                   enriched, chunked_dir, chunked_files, annotated>>
    /\ UNCHANGED notPdfs

\* ---- lines 136-141: page count and annotate_pdf_pages succeed
AnnotateReturns ==
    /\ pp_pc = "annotate"
    /\ annotate_i <= Len(pdf_files)
    /\ annotated' = annotated \cup {pdf_files[annotate_i]}
    /\ annotate_i' = annotate_i + 1
    /\ UNCHANGED <<pdf_files, json_file,
                   pp_pc, partitioned_dir, partition_failed,
                   json_files, enriched, chunked_dir, chunked_files>>
    /\ UNCHANGED notPdfs

\* Mutant: no except clause in the annotation loop: the exception leaves
\* process_pdfs.
AnnotateRaisesPropagates ==
    /\ pp_pc = "annotate"
    /\ annotate_i <= Len(pdf_files)
    /\ pp_pc' = "raised"
    /\ UNCHANGED <<pdf_files, json_file, partitioned_dir, partition_failed,
                   json_files, enriched, chunked_dir, chunked_files,
                   annotate_i, annotated>>
    /\ UNCHANGED notPdfs

\* ---- lines 142-147: FileNotFoundError or any other exception; caught and
\* logged, next PDF
AnnotateRaises ==
    /\ pp_pc = "annotate"
    /\ annotate_i <= Len(pdf_files)
    /\ annotate_i' = annotate_i + 1
    /\ UNCHANGED <<pdf_files, json_file,
                   pp_pc, partitioned_dir, partition_failed,
                   json_files, enriched, chunked_dir, chunked_files,
                   annotated>>
    /\ UNCHANGED notPdfs

\* ---- line 136: the loop over pdf_files is exhausted; process_pdfs returns
AnnotateDone ==
    /\ pp_pc = "annotate"
    /\ annotate_i > Len(pdf_files)
    /\ pp_pc' = "returned"
    /\ UNCHANGED <<pdf_files, json_file,
                   partitioned_dir, partition_failed, json_files,
                   enriched, chunked_dir, chunked_files, annotate_i,
                   annotated>>
    /\ UNCHANGED notPdfs

NextPdfs ==
    \/ PartitionReturns \/ PartitionThrows
    \/ EnrichList \/ EnrichFileCall \/ NextEnrich
    \/ EnrichFileReturns \/ EnrichFileRaises \/ EnrichDone
    \/ ChunkReturns \/ ChunkThrows
    \/ CleanupList \/ CleanupRename \/ CleanupRenameRaises \/ CleanupDone
    \/ AnnotateReturns \/ AnnotateRaises \/ AnnotateDone

SpecPdfs == InitPdfs /\ [][NextPdfs]_vars

\* ================================================================ claims
\* ========================================================= insert_product
ProductNames == {"Vac A", "Vac B"}

\* ---- line 132: range(3)
Attempts == 3

\* ---- line 134: select('product_id').eq('product_name', ...): the ids of
\* the rows with that name
Matching(table, name) == {id \in DOMAIN table : table[id] = name}

\* ---- line 137: insert(product_info_copy): a row with a fresh id
Inserted(table, name) == Append(table, name)

\* ---- lines 128-132: the call, on a table of any content (the name is
\* not a key: the table may hold it more than once)
InitInsert ==
    /\ EnrichIdle
    /\ MdIdle
    /\ PdfsIdle
    /\ products \in SeqsUpTo(ProductNames, MaxProducts)
    /\ product_name \in ProductNames
    /\ attempt = 1
    /\ existing_product = None
    /\ product_id = 0
    /\ ip_pc = "select"
    /\ inserts = 0
    /\ failures = 0

\* ---- lines 139-142: the except clause: log, sleep, next iteration; after
\* the third iteration the loop is exhausted and line 142 raises
AttemptFails ==
    /\ failures' = failures + 1
    /\ IF attempt < Attempts
       THEN attempt' = attempt + 1 /\ ip_pc' = "select"
       ELSE attempt' = attempt /\ ip_pc' = "raised"
    /\ UNCHANGED <<product_name, product_id>>

\* Mutant: the select result is not tested: the insert is made anyway.
SelectFindsInsertsAnyway ==
    /\ ip_pc = "select"
    /\ Matching(products, product_name) # {}
    /\ existing_product' = Matching(products, product_name)
    /\ ip_pc' = "insert"
    /\ UNCHANGED <<products, product_name, attempt, product_id, inserts,
                   failures>>
    /\ UNCHANGED notInsert

\* ---- lines 134-136: the select answers with rows; the id of the first
\* of them (the query has no order: any of them) is returned
SelectFinds ==
    /\ ip_pc = "select"
    /\ Matching(products, product_name) # {}
    /\ existing_product' = Matching(products, product_name)
    /\ \E id \in Matching(products, product_name) : product_id' = id
    /\ ip_pc' = "returned"
    /\ UNCHANGED <<products, product_name, attempt, inserts, failures>>
    /\ UNCHANGED notInsert

\* ---- lines 134-135: the select answers with no row
SelectEmpty ==
    /\ ip_pc = "select"
    /\ Matching(products, product_name) = {}
    /\ existing_product' = {}
    /\ ip_pc' = "insert"
    /\ UNCHANGED <<products, product_name, attempt, product_id, inserts,
                   failures>>
    /\ UNCHANGED notInsert

\* ---- lines 134, 139-141: the select raises
SelectRaises ==
    /\ ip_pc = "select"
    /\ AttemptFails
    /\ UNCHANGED <<products, existing_product, inserts>>
    /\ UNCHANGED notInsert

\* ---- lines 137-138: the insert answers with the new row
InsertReturns ==
    /\ ip_pc = "insert"
    /\ products' = Inserted(products, product_name)
    /\ product_id' = Len(products')
    /\ inserts' = inserts + 1
    /\ ip_pc' = "returned"
    /\ UNCHANGED <<product_name, attempt, existing_product, failures>>
    /\ UNCHANGED notInsert

\* ---- lines 137-141: the insert (or reading its response) raises; the row
\* was stored or was not
InsertRaises ==
    /\ ip_pc = "insert"
    /\ products' \in {products, Inserted(products, product_name)}
    /\ inserts' = inserts + 1
    /\ AttemptFails
    /\ UNCHANGED existing_product
    /\ UNCHANGED notInsert

NextInsert ==
    \/ SelectFinds \/ SelectEmpty \/ SelectRaises
    \/ InsertReturns \/ InsertRaises

SpecInsert == InitInsert /\ [][NextInsert]_vars

\* ---- enrich_json_with_summaries

\* The call holds json_data (it is running or has just returned).
InRun == pc \in EnrichRunning \cup {"done"}

IsImageWithPayload(e) ==
    e.type = "Image" /\ e.image_base64 \notin {None, ""}
IsTextWithText(e) ==
    /\ e.type \in {"NarrativeText", "Title", "UncategorizedText"}
    /\ e.text \notin {None, ""}
IsEnrichable(e) == IsImageWithPayload(e) \/ IsTextWithText(e)

Succeeded == {i \in DOMAIN returned : returned[i] \in Summaries}

\* A json.dump of this run completed at or after the summarizer call for i.
WrittenSince(i) == \E k \in 1..lastDump : calls[k] = i

\* C1 (as claimed): whenever the process is killed during a run, the file
\* still holds what the last completed write (or the load) left in it.
C1_CrashKeepsPersisted == pc = "killed" => file = persisted

\* C2: an element whose summarizer call raised is left as loaded, no
\* exception leaves the function, and at the return every enrichable
\* element has been handed to its summarizer.
C2_SummarizerFailureIsolated ==
    /\ \A i \in DOMAIN returned :
         returned[i] = Failed =>
           /\ pc # "raised"
           /\ InRun => json_data[i] = loaded[i]
    /\ pc = "done" =>
         \A j \in DOMAIN loaded :
           IsEnrichable(loaded[j]) => returned[j] # None

C2_Witness ==
    /\ pc = "done"
    /\ \E i, j \in DOMAIN loaded :
         /\ loaded[i].type = "Image" /\ returned[i] = Failed
         /\ loaded[j].type = "NarrativeText" /\ returned[j] \in Summaries

\* C3 (as claimed): a run never calls a summarizer for, and never changes,
\* an element that was loaded with a summary.
C3_RerunSkipsSummarized ==
    InRun =>
      /\ \A k \in 1..Len(calls) : loaded[calls[k]].summary = None
      /\ \A i \in DOMAIN loaded :
           loaded[i].summary # None => json_data[i] = loaded[i]

\* C6 (as claimed): after the run, the file holds the returned description
\* as the text of every Image element whose summarizer call succeeded, and
\* no summary was added to it.
C6_ImageTextInFile ==
    pc = "done" =>
      \A i \in DOMAIN loaded :
        (IsImageWithPayload(loaded[i]) /\ returned[i] \in Summaries) =>
          /\ file.valid
          /\ file.elems[i].text = returned[i]
          /\ file.elems[i].summary = loaded[i].summary

\* C6 (amended): for an Image element with a payload whose summarizer call
\* succeeded, the text of the element in json_data is exactly the returned
\* string and nothing else of it changed; every write that completes from
\* then on stores exactly that, so the file holds it whenever it is whole
\* and a write completed at or after that call.
C6_ImageTextStored ==
    \A i \in DOMAIN returned :
      (IsImageWithPayload(loaded[i]) /\ returned[i] \in Summaries) =>
        /\ InRun => json_data[i] = [loaded[i] EXCEPT !.text = returned[i]]
        /\ (file.valid /\ WrittenSince(i)) =>
             file.elems[i] = [loaded[i] EXCEPT !.text = returned[i]]

C6_Witness ==
    /\ pc = "done"
    /\ \E i \in DOMAIN loaded :
         /\ IsImageWithPayload(loaded[i])
         /\ loaded[i].text = "img text"
         /\ returned[i] \in Summaries
         /\ file.valid
         /\ WrittenSince(i)
         /\ file.elems[i].text = returned[i]

\* C7: for a NarrativeText, Title or UncategorizedText element with
\* non-empty text whose summarizer call succeeded, the element has the
\* returned string as its summary and its text (and the rest) is as loaded;
\* every write that completes from then on stores exactly that.
C7_TextSummaryStored ==
    \A i \in DOMAIN returned :
      (IsTextWithText(loaded[i]) /\ returned[i] \in Summaries) =>
        /\ InRun => json_data[i] = [loaded[i] EXCEPT !.summary = returned[i]]
        /\ (file.valid /\ WrittenSince(i)) =>
             file.elems[i] = [loaded[i] EXCEPT !.summary = returned[i]]

C7_Witness ==
    /\ pc = "done"
    /\ \E i \in DOMAIN loaded :
         /\ loaded[i].type = "UncategorizedText"
         /\ returned[i] \in Summaries
         /\ json_data[i].summary = returned[i]
         /\ json_data[i].text = "body"
         /\ file.valid
         /\ file.elems[i].summary = returned[i]

\* e is o up to the one field enrichment may set for o's type.
SameUpToEnrichment(o, e) ==
    IF o.type = "Image" THEN [e EXCEPT !.text = o.text] = o
    ELSE IF o.type \in {"NarrativeText", "Title", "UncategorizedText"}
         THEN [e EXCEPT !.summary = o.summary] = o
         ELSE e = o

\* C8 (as claimed): after a run the file holds a sequence of the loaded
\* length whose elements are, in order, the loaded ones up to the text of
\* Image elements and the summary of text elements.
C8_FrameInFile ==
    pc = "done" =>
      /\ file.valid
      /\ Len(file.elems) = Len(loaded)
      /\ \A i \in DOMAIN loaded : SameUpToEnrichment(loaded[i], file.elems[i])

IsSkipped(e) ==
    \/ e.type = "Image" /\ e.image_base64 \in {None, ""}
    \/ /\ e.type \in {"NarrativeText", "Title", "UncategorizedText"}
       /\ e.text \in {None, ""}

\* C11: an Image element with no image payload and a text-set element with
\* empty text are never handed to a summarizer and stay as loaded, in
\* json_data and in the file; no exception leaves a run that loaded its
\* file; and at the return every enrichable element, those after a skipped
\* one included, has been handed to its summarizer.
C11_SkippedUntouched ==
    /\ \A i \in DOMAIN loaded :
         IsSkipped(loaded[i]) =>
           /\ \A k \in 1..Len(calls) : calls[k] # i
           /\ returned[i] = None
           /\ InRun => json_data[i] = loaded[i]
           /\ file.valid => file.elems[i] = loaded[i]
    /\ pc = "raised" => loaded = << >>
    /\ pc = "done" =>
         \A i, j \in DOMAIN loaded :
           (IsSkipped(loaded[i]) /\ i < j /\ IsEnrichable(loaded[j])) =>
             \E k \in 1..Len(calls) : calls[k] = j

C11_Witness ==
    /\ pc = "done"
    /\ Len(loaded) = 2
    /\ IsSkipped(loaded[1])
    /\ loaded[2].type = loaded[1].type
    /\ returned[2] \in Summaries
    /\ file.valid
    /\ file.elems[1] = loaded[1]
    /\ file.elems[2] # loaded[2]

\* The calls that have not returned yet, as positions of calls.
InFlight == {k \in 1..Len(calls) : returned[calls[k]] = None}

\* Images come before text elements, each kind in the order of the file.
CallRank(i) == IF loaded[i].type = "Image" THEN i ELSE Len(loaded) + i

CallsInOrder ==
    /\ InFlight \subseteq {Len(calls)}
    /\ InFlight # {} <=> pc \in {"img_call", "txt_call"}
    /\ \A k, l \in 1..Len(calls) :
         k < l => CallRank(calls[k]) < CallRank(calls[l])
    /\ pc \in {"img_loop", "img_call", "img_open", "img_dump"} =>
         \A k \in 1..Len(calls) : loaded[calls[k]].type = "Image"

\* C17 (as claimed): at most one summarizer call is in flight, the calls
\* are made for the images in file order and then for the text elements in
\* file order, and when a call is issued the file holds the result of
\* every earlier call that succeeded.
C17_PersistedBeforeNextCall ==
    /\ CallsInOrder
    /\ pc \in {"img_call", "txt_call"} =>
         \A k \in 1..(Len(calls) - 1) :
           returned[calls[k]] \in Summaries =>
             /\ file.valid
             /\ file.elems[calls[k]] = json_data[calls[k]]

\* C17 (amended): at most one summarizer call is in flight and the calls
\* are made in that order; when a call is issued every earlier call has
\* returned or raised and a write has been attempted for each one that
\* succeeded; the file then holds the results of all of them when none of
\* those writes raised.
C17_WriteAttemptedBeforeNextCall ==
    /\ CallsInOrder
    /\ pc \in {"img_call", "txt_call"} =>
         /\ \A k \in 1..(Len(calls) - 1) : returned[calls[k]] # None
         /\ attempts = Cardinality(Succeeded)
         /\ writes = attempts =>
              /\ file.valid
              /\ \A k \in 1..(Len(calls) - 1) :
                   file.elems[calls[k]] = json_data[calls[k]]

C17_Witness ==
    /\ pc = "txt_call"
    /\ Len(loaded) = 2
    /\ loaded[1].type = "NarrativeText"
    /\ loaded[2].type = "Image"
    /\ calls = <<2, 1>>
    /\ returned[2] \in Summaries
    /\ returned[1] = None
    /\ writes = 1
    /\ file.valid
    /\ file.elems[2].text = returned[2]

\* A summarizer that is a function of its input: it answers "sum A" for
\* what the partitioner wrote and "sum B" for anything else (a summary).
SummaryOf(input) ==
    IF input \in {"b64", "body", "img text", "cells"} THEN "sum A"
    ELSE "sum B"

\* What the summarizer of element e is called with.
SummarizerInput(e) == IF e.type = "Image" THEN e.image_base64 ELSE e.text

\* The field the enrichment of element e is stored in.
Enrichment(e) == IF e.type = "Image" THEN e.text ELSE e.summary

\* s is what a complete run with that summarizer leaves in the file: every
\* enrichable element carries the summary of its input.
IsOutputOfCompleteRun(s) ==
    /\ \E i \in DOMAIN s : IsEnrichable(s[i])
    /\ \A i \in DOMAIN s :
         IsEnrichable(s[i]) =>
           Enrichment(s[i]) = SummaryOf(SummarizerInput(s[i]))

\* Every call of this run that returned answered as that summarizer does.
DeterministicRun ==
    \A i \in DOMAIN returned :
      returned[i] \in Summaries =>
        returned[i] = SummaryOf(SummarizerInput(loaded[i]))

\* C24 (as claimed): with a summarizer that is a function of its input, a
\* run on the file a complete run left returns with the file as it was.
C24_SecondRunKeepsFile ==
    (pc = "done" /\ IsOutputOfCompleteRun(loaded) /\ DeterministicRun) =>
      file = ValidFile(loaded)

\* A write that follows a successful summarizer call fails: open or
\* json.dump raises and the except clause of the loop takes over.
WriteFails ==
    /\ pc \in {"img_open", "img_dump", "txt_open", "txt_dump"}
    /\ pc' \in {"img_loop", "txt_loop"}
    /\ writes' = writes

\* C25: a write that fails after a successful summarizer call sends the
\* loop on to the next element, as a summarizer failure does, and leaves
\* json_data alone: every element whose call succeeded keeps the returned
\* string in memory. A write that completes later stores what json_data
\* holds for it, so the file has its enrichment although its own write
\* failed; until a write completes at or after its call the file, when it
\* is whole, holds the element as it was loaded.
C25_FailedWriteKeepsEnrichment ==
    /\ [](InRun =>
            \A k \in 1..Len(calls) :
              returned[calls[k]] \in Summaries =>
                /\ Enrichment(json_data[calls[k]]) = returned[calls[k]]
                /\ (file.valid /\ k <= lastDump) =>
                     file.elems[calls[k]] = json_data[calls[k]]
                /\ (file.valid /\ k > lastDump) =>
                     file.elems[calls[k]] = loaded[calls[k]])
    /\ [][WriteFails =>
            /\ pc' = (IF pc \in {"img_open", "img_dump"}
                      THEN "img_loop" ELSE "txt_loop")
            /\ idx' = idx + 1
            /\ json_data' = json_data
            /\ returned' = returned]_vars

\* Two calls succeeded, the write after the first failed and the write
\* after the second completed: the file holds both enrichments.
C25_Witness ==
    /\ pc = "done"
    /\ Len(calls) = 2
    /\ returned[calls[1]] \in Summaries
    /\ returned[calls[2]] \in Summaries
    /\ attempts = 2
    /\ writes = 1
    /\ lastDump = 2
    /\ file.valid
    /\ Enrichment(file.elems[calls[1]]) = returned[calls[1]]
    /\ file.elems[calls[1]] # loaded[calls[1]]

\* ---- generate_markdown

\* The text written so far, in output order.
Written == markdown_content \o page_content

Positions(out, kinds) == {k \in DOMAIN out : out[k].k \in kinds}

\* The chunk whose section holds position k: the id of the last
\* "Chunk <id>" header before k.
ChunkAt(out, k) ==
    LET opens == {j \in Positions(out, {"chunk_open"}) : j < k}
    IN  out[CHOOSE j \in opens : \A o \in opens : o <= j].id

ChunkPage(c) == chunks_data[c].orig_elements[1].page_number

\* Every chunk has original elements with a page number, and the page
\* numbers never decrease.
PagesNonDecreasing ==
    /\ \A c \in DOMAIN chunks_data :
         /\ chunks_data[c].orig = "list"
         /\ chunks_data[c].orig_elements # << >>
         /\ ChunkPage(c) # NoPage
    /\ \A c \in DOMAIN chunks_data :
         c > 1 => ChunkPage(c - 1) <= ChunkPage(c)

LastOfPage(c) ==
    c = Len(chunks_data) \/ ChunkPage(c + 1) # ChunkPage(c)

\* C4: for chunks that all have original elements and non-decreasing page
\* numbers with p distinct values, the returned text holds exactly p page
\* footers: one directly after the section of the last chunk of each page,
\* carrying that page's number.
C4_OneFooterPerPage ==
    (md_pc = "done" /\ PagesNonDecreasing) =>
      LET out == markdown_content
          footers == Positions(out, {"page_footer"})
      IN  /\ Cardinality(footers) =
               Cardinality({ChunkPage(c) : c \in DOMAIN chunks_data})
          /\ \A c \in DOMAIN chunks_data :
               LastOfPage(c) =>
                 \E k \in footers :
                   /\ out[k].page = ChunkPage(c)
                   /\ out[k - 1].k = "chunk_close"
                   /\ ChunkAt(out, k) = c
          /\ Len(chunks_data) > 0 => Len(out) \in footers

C4_Witness ==
    /\ md_pc = "done"
    /\ PagesNonDecreasing
    /\ Len(chunks_data) = 5
    /\ [c \in 1..5 |-> ChunkPage(c)] = <<1, 1, 2, 2, 3>>
    /\ Cardinality(Positions(markdown_content, {"page_footer"})) = 3

\* The ids the output shows, in output order: 10 * id for a chunk header,
\* the element's id (10 * chunk + position) for an element's header line.
ShownKey(piece) == IF piece.k = "chunk_open" THEN 10 * piece.id ELSE piece.id

ElementBodies == {"title", "header", "footer", "summary_callout",
                  "list_item", "image", "image_placeholder"}

\* C10: in the text written so far, chunk sections appear in input order
\* and, in each, the original elements in orig_elements order, page footers
\* or not; every markup of an element follows that element's header line;
\* and the returned text shows every chunk and every element of the input.
C10_OrderPreserved ==
    LET out == Written
        shown == Positions(out, {"chunk_open", "elem_head"})
    IN  /\ \A k, l \in shown :
             k < l => ShownKey(out[k]) < ShownKey(out[l])
        /\ \A k \in Positions(out, ElementBodies) :
             k > 1 /\ out[k - 1].k = "elem_head"
        /\ md_pc = "done" =>
             \A c \in DOMAIN chunks_data :
               chunks_data[c].orig = "list" =>
                 /\ \E k \in shown :
                      out[k].k = "chunk_open" /\ out[k].id = c
                 /\ \A j \in DOMAIN chunks_data[c].orig_elements :
                      \E k \in shown :
                        /\ out[k].k = "elem_head"
                        /\ out[k].id = chunks_data[c].orig_elements[j].id

C10_Witness ==
    /\ md_pc = "done"
    /\ Len(chunks_data) = 3
    /\ \A c \in 1..3 : Len(chunks_data[c].orig_elements) = 2
    /\ ChunkPage(1) # ChunkPage(2)
    /\ Cardinality(Positions(markdown_content, {"elem_head"})) = 6
    /\ Cardinality(Positions(markdown_content, {"page_footer"})) >= 2

\* The original element whose header line shows id n.
ElementById(n) == chunks_data[n \div 10].orig_elements[n % 10]

HeadPositions(out) == Positions(out, {"elem_head"})

\* A Table or Image original element with no embedded image.
IsImageless(oe) ==
    /\ oe.type \in {"Table", "Image"}
    /\ oe.image \in {None, "", Missing}

\* C13 (as claimed): a Table or Image original element with no embedded
\* image is rendered as the placeholder line showing its text, and showing
\* ?Unknown when the text is empty, null or missing.
C13_PlaceholderUnknownIfNoText ==
    LET out == Written
    IN  \A k \in HeadPositions(out) :
          LET oe == ElementById(out[k].id)
          IN  IsImageless(oe) =>
                /\ k < Len(out)
                /\ out[k + 1].k = "image_placeholder"
                /\ out[k + 1].x = IF oe.text \in {"", None, Missing}
                                  THEN "?Unknown" ELSE oe.text

\* C13 (amended): the placeholder line shows the element's text when it is
\* not empty, ?Unknown when the text is empty or null, and "No content" when
\* the element has no text key.
C13_PlaceholderText ==
    LET out == Written
    IN  \A k \in HeadPositions(out) :
          LET oe == ElementById(out[k].id)
          IN  IsImageless(oe) =>
                /\ k < Len(out)
                /\ out[k + 1].k = "image_placeholder"
                /\ out[k + 1].x = IF oe.text \in {"", None} THEN "?Unknown"
                                  ELSE IF oe.text = Missing THEN "No content"
                                  ELSE oe.text

C13_Witness ==
    /\ md_pc = "done"
    /\ \E k \in HeadPositions(markdown_content) :
         /\ ElementById(markdown_content[k].id).type = "Table"
         /\ ElementById(markdown_content[k].id).text = ""
         /\ markdown_content[k + 1].k = "image_placeholder"
         /\ markdown_content[k + 1].x = "?Unknown"

KnownTypes == {"Title", "Header", "Footer", "NarrativeText",
               "UncategorizedText", "ListItem", "Table", "Image"}

\* C14 (as claimed): for an original element whose type is none of the
\* eight rendered ones, nothing of the returned text comes from the
\* element.
C14_UnknownNoMarkup ==
    md_pc = "done" =>
      \A k \in HeadPositions(markdown_content) :
        ElementById(markdown_content[k].id).type \in KnownTypes

\* C14 (amended): such an element gets the line showing its type (Unknown
\* when it has none) and id, written for every original element, and no
\* markup after it: what follows the line is the next element's line or
\* the closing of the chunk.
C14_UnknownOnlyHead ==
    LET out == Written
    IN  /\ \A k \in HeadPositions(out) :
             LET oe == ElementById(out[k].id)
             IN  oe.type \notin KnownTypes =>
                   /\ out[k].x = IF oe.type = Missing THEN "Unknown"
                                 ELSE oe.type
                   /\ k < Len(out)
                   /\ out[k + 1].k \in {"elem_head", "chunk_close"}
        /\ md_pc = "done" =>
             \A c \in DOMAIN chunks_data :
               \A j \in DOMAIN chunks_data[c].orig_elements :
                 LET oe == chunks_data[c].orig_elements[j]
                 IN  oe.type \notin KnownTypes =>
                       Cardinality({k \in HeadPositions(out) :
                                      out[k].id = oe.id}) = 1

C14_Witness ==
    /\ md_pc = "done"
    /\ \E k \in HeadPositions(markdown_content) :
         /\ ElementById(markdown_content[k].id).type = "FigureCaption"
         /\ markdown_content[k].x = "FigureCaption"
         /\ markdown_content[k + 1].k = "chunk_close"

\* The <details> opened and the </details> closed by the pieces at the
\* positions S of out.
Opens(out, S) == Cardinality({k \in S : DetailsOpened(out[k]) >= 1})
Closes(out, S) ==
    Cardinality({k \in S : DetailsClosed(out[k]) >= 1})
    + Cardinality({k \in S : DetailsClosed(out[k]) >= 2})

\* Read from piece k on with depth blocks open: no closing tag comes
\* without a block to close, a page footer stands where no block is open,
\* and the end is reached with no block open.
RECURSIVE WellNested(_, _, _)
WellNested(out, k, depth) ==
    IF k > Len(out) THEN depth = 0
    ELSE /\ out[k].k = "page_footer" => depth = 0
         /\ depth + DetailsOpened(out[k]) >= DetailsClosed(out[k])
         /\ WellNested(out, k + 1,
                       depth + DetailsOpened(out[k]) - DetailsClosed(out[k]))

\* The positions of the chunk section that starts at position k: from the
\* "Chunk <id>" header up to the next chunk's header, page footers aside.
Section(out, k) ==
    LET later == {j \in Positions(out, {"chunk_open"}) : j > k}
        stop == IF later = {} THEN Len(out) + 1
                ELSE CHOOSE j \in later : \A o \in later : j <= o
    IN  {j \in k..(stop - 1) : out[j].k # "page_footer"}

\* C15: in the text written so far every chunk section opens exactly three
\* details blocks and closes exactly three, whatever the types of its
\* original elements; no closing tag comes before its opening tag; every
\* page footer stands where no details block is open, after the closing
\* tags of a chunk and before the next chunk's header; and the returned
\* text leaves no block open and shows every chunk that has original
\* elements.
C15_DetailsBalanced ==
    LET out == Written
    IN  /\ \A k \in Positions(out, {"chunk_open"}) :
             /\ Opens(out, Section(out, k)) = 3
             /\ Closes(out, Section(out, k)) = 3
        /\ WellNested(out, 1, 0)
        /\ \A k \in Positions(out, {"page_footer"}) :
             /\ out[k - 1].k = "chunk_close"
             /\ k < Len(out) => out[k + 1].k = "chunk_open"
        /\ md_pc = "done" =>
             \A c \in DOMAIN chunks_data :
               chunks_data[c].orig = "list" =>
                 \E k \in Positions(out, {"chunk_open"}) : out[k].id = c

C15_Witness ==
    /\ md_pc = "done"
    /\ Len(chunks_data) = 1
    /\ Len(chunks_data[1].orig_elements) = 1
    /\ chunks_data[1].orig_elements[1].type = "FigureCaption"
    /\ markdown_content[2].k = "chunk_open"
    /\ Opens(markdown_content, Section(markdown_content, 2)) = 3
    /\ Closes(markdown_content, Section(markdown_content, 2)) = 3
    /\ markdown_content[Len(markdown_content)].k = "page_footer"

\* The loop is at a chunk whose orig_elements is absent or null.
AtChunkWithoutOrigElements ==
    /\ md_pc = "loop"
    /\ item_i <= Len(chunks_data)
    /\ chunks_data[item_i].orig \in {"absent", "null"}

\* No section of the text is of a chunk without orig_elements, and every
\* page footer between two sections closes the page of the section before
\* it and stands between chunks of different pages.
OnlyRenderedChunksShow ==
    LET out == Written
    IN  /\ \A k \in Positions(out, {"chunk_open"}) :
             chunks_data[out[k].id].orig = "list"
        /\ \A k \in Positions(out, {"page_footer"}) :
             /\ out[k].page = ChunkPage(ChunkAt(out, k))
             /\ k < Len(out) =>
                  ChunkPage(out[k + 1].id) # ChunkPage(ChunkAt(out, k))

\* C16: the step the loop takes at a chunk whose orig_elements is absent or
\* null leaves the text, the page buffer and the page cursor as they are
\* and goes to the next chunk, so the chunks after it are rendered from the
\* state the chunks before it left; nothing of the text comes from such a
\* chunk and no page footer stands between chunks of one page.
C16_SkippedChunkLeavesNoTrace ==
    /\ [][AtChunkWithoutOrigElements =>
            /\ UNCHANGED <<markdown_content, page_content, current_page>>
            /\ item_i' = item_i + 1
            /\ md_pc' = "loop"]_vars
    /\ []OnlyRenderedChunksShow

C16_Witness ==
    /\ md_pc = "done"
    /\ Len(chunks_data) = 3
    /\ chunks_data[2].orig \in {"absent", "null"}
    /\ chunks_data[1].orig_elements # << >>
    /\ chunks_data[3].orig_elements # << >>
    /\ ChunkPage(1) = ChunkPage(3)
    /\ ChunkPage(1) # NoPage
    /\ Cardinality(Positions(markdown_content, {"chunk_open"})) = 2
    /\ Cardinality(Positions(markdown_content, {"page_footer"})) = 1

\* C18 (as claimed): for each original element of type NarrativeText,
\* UncategorizedText or Title, the line after the element's header line is
\* the summary callout showing the chunk's summary when the chunk has one,
\* and is no callout when the chunk has none.
C18_CalloutForTextAndTitle ==
    LET out == Written
    IN  \A k \in HeadPositions(out) :
          LET oe == ElementById(out[k].id)
              item == chunks_data[out[k].id \div 10]
          IN  oe.type \in {"NarrativeText", "UncategorizedText", "Title"} =>
                IF item.summary # Missing
                THEN /\ out[k + 1].k = "summary_callout"
                     /\ out[k + 1].x = item.summary
                ELSE out[k + 1].k # "summary_callout"

\* The chunks that are rendered: those with original elements.
RenderedChunks == {c \in DOMAIN chunks_data : chunks_data[c].orig = "list"}

EveryRenderedChunkHasPage ==
    \A c \in RenderedChunks :
      chunks_data[c].orig_elements # << >> /\ ChunkPage(c) # NoPage

\* Chunk c is the last of a maximal run of consecutive rendered chunks with
\* the same page number.
EndsRun(c) ==
    /\ c \in RenderedChunks
    /\ LET later == {d \in RenderedChunks : d > c}
       IN  \/ later = {}
           \/ ChunkPage(CHOOSE d \in later : \A e \in later : d <= e)
                # ChunkPage(c)

\* Every embedded image comes with a text key (create_debugging_markdown
\* writes one into every element it builds).
EveryImageHasText ==
    \A c \in RenderedChunks :
      \A j \in DOMAIN chunks_data[c].orig_elements :
        ~ElementRaises(chunks_data[c].orig_elements[j])

\* C22: when every rendered chunk has a page number, in whatever order,
\* generate_markdown returns, and the returned text holds one page footer
\* per maximal run of consecutive rendered chunks with the same page
\* number: directly after the section of the last chunk of the run, with
\* the run's page number, and nowhere else.
C22_OneFooterPerRun ==
    (/\ md_pc \in {"done", "raised"}
     /\ EveryRenderedChunkHasPage
     /\ EveryImageHasText) =>
      /\ md_pc = "done"
      /\ LET out == markdown_content
             footers == Positions(out, {"page_footer"})
         IN  /\ Cardinality(footers) =
                  Cardinality({c \in RenderedChunks : EndsRun(c)})
             /\ \A k \in footers :
                  /\ out[k - 1].k = "chunk_close"
                  /\ EndsRun(ChunkAt(out, k))
                  /\ out[k].page = ChunkPage(ChunkAt(out, k))

C22_Witness ==
    /\ md_pc = "done"
    /\ Len(chunks_data) = 3
    /\ RenderedChunks = {1, 2, 3}
    /\ EveryRenderedChunkHasPage
    /\ [c \in 1..3 |-> ChunkPage(c)] = <<1, 2, 1>>
    /\ LET out == markdown_content
           footers == Positions(out, {"page_footer"})
       IN  /\ Cardinality(footers) = 3
           /\ \A k \in footers : out[k].page = ChunkPage(ChunkAt(out, k))

\* The first chunk of the input whose orig_elements is an empty list, or 0.
FirstEmptyList ==
    LET E == {c \in DOMAIN chunks_data :
                /\ chunks_data[c].orig = "list"
                /\ chunks_data[c].orig_elements = << >>}
    IN  IF E = {} THEN 0 ELSE CHOOSE c \in E : \A d \in E : c <= d

\* The for loop is at a chunk whose orig_elements is an empty list.
AtEmptyList ==
    /\ md_pc = "loop"
    /\ item_i <= Len(chunks_data)
    /\ Item.orig = "list"
    /\ Item.orig_elements = << >>

\* C26: at a chunk whose orig_elements is present but an empty list the
\* loop does not go on to the next chunk: generate_markdown raises, and
\* nothing of what was built for the chunks before it is returned; a call
\* on an input with such a chunk never reaches the chunks after it and
\* never returns.
C26_EmptyOrigElementsRaises ==
    /\ [](FirstEmptyList # 0 =>
            /\ md_pc # "done"
            /\ item_i <= FirstEmptyList
            /\ md_pc = "raised" =>
                 markdown_content = << >> /\ page_content = << >>)
    /\ [][AtEmptyList =>
            /\ md_pc' = "raised"
            /\ item_i' = item_i
            /\ markdown_content' = << >>
            /\ page_content' = << >>]_vars

\* The first chunk was rendered, the second has an empty list: the call
\* has raised there and holds no output.
C26_Witness ==
    /\ md_pc = "raised"
    /\ Len(chunks_data) = 3
    /\ chunks_data[1].orig = "list"
    /\ Len(chunks_data[1].orig_elements) = 2
    /\ chunks_data[2].orig = "list"
    /\ chunks_data[2].orig_elements = << >>
    /\ item_i = 2
    /\ markdown_content = << >>

\* ---- process_pdfs

\* The files whose enrichment call has ended without returning.
EnrichFailed == partitioned_dir \ (json_files \cup enriched \cup {json_file})

\* C12: when the partition file cannot be read or parsed, the call of
\* enrich_json_with_summaries raises with no summarizer called, no write
\* attempted and the file as it was (a file json.load cannot parse never
\* gets further than that); enrich_partitions catches what the call raises
\* and stays in its loop; and when enrich_partitions has ended every file of
\* 01_partitioned has had its call, each one enriched unless its own call
\* raised.
C12_UnreadableFileIsolated ==
    /\ [](pc = "raised" =>
            /\ calls = << >> /\ attempts = 0 /\ writes = 0
            /\ file = persisted)
    /\ [](~persisted.valid => pc \in {"idle", "raised"})
    /\ [][(pc = "raised" /\ json_file # 0) =>
            (pp_pc' = "enrich" /\ json_files' = json_files)]_vars
    /\ [](pp_pc \in {"chunk", "cleanup_list", "cleanup", "annotate",
                     "returned"} =>
            /\ json_files = {} /\ json_file = 0
            /\ enriched \cup EnrichFailed = partitioned_dir)

C12_Witness ==
    /\ pp_pc = "enrich"
    /\ Cardinality(EnrichFailed) = 1
    /\ json_file # 0
    /\ pc = "done"
    /\ writes = 1
    /\ json_files # {}

\* C5 (as claimed): when the partitioning of a file of the batch throws,
\* process_pdfs does not raise, and when it returns every other file has
\* been enriched, chunked and annotated.
C5_PartitionFailureIsolated ==
    partition_failed # {} =>
      /\ pp_pc # "raised"
      /\ pp_pc = "returned" =>
           \A f \in Batch \ partition_failed :
             /\ f \in enriched
             /\ ChunkFile(f, 1) \in chunked_dir
             /\ f \in annotated

\* process_pdfs has raised out of the loop of cleanup_file_extensions (the
\* list of names to rename is filled by that stage only).
RaisedInCleanup == pp_pc = "raised" /\ chunked_files # {}

\* C19 (as claimed): a rename that fails during extension normalization
\* does not make process_pdfs raise, and when process_pdfs returns no
\* name listed for renaming is left and every PDF has had its annotation
\* step.
C19_RenameFailureIsolated ==
    /\ ~RaisedInCleanup
    /\ pp_pc = "returned" =>
         /\ chunked_files = {}
         /\ annotate_i = Len(pdf_files) + 1

\* The stage process_pdfs is in: 1 partition, 2 enrich, 3 chunk, 4 extension
\* normalization, 5 annotation, 6 ended.
StageOf(p) ==
    IF p = "partition" THEN 1
    ELSE IF p \in {"enrich_list", "enrich"} THEN 2
    ELSE IF p = "chunk" THEN 3
    ELSE IF p \in {"cleanup_list", "cleanup"} THEN 4
    ELSE IF p = "annotate" THEN 5
    ELSE 6

\* A call of enrich_json_with_summaries is pending or running.
Enriching == json_file # 0 \/ pc # "idle"

\* C20: process_pdfs never goes back to an earlier stage and enters each
\* stage from the one before it; no enrichment call is made (and none has
\* returned) outside the enrich stage, which follows the return of the
\* partition pipeline; chunking and every later stage find every listed
\* partition file visited and its call ended; chunk files are renamed only
\* in the extension normalization; and no PDF is annotated before the
\* renaming loop has ended.
C20_StagesInOrder ==
    /\ [][/\ StageOf(pp_pc') >= StageOf(pp_pc)
          /\ pp_pc' \notin {pp_pc, "raised"} =>
               StageOf(pp_pc') \in {StageOf(pp_pc), StageOf(pp_pc) + 1}]_vars
    /\ [](Enriching => pp_pc = "enrich")
    /\ [](pp_pc = "partition" =>
            enriched = {} /\ json_files = {} /\ partitioned_dir = {})
    /\ [](pp_pc \in {"chunk", "cleanup_list", "cleanup", "annotate",
                     "returned"} =>
            /\ partitioned_dir = Batch
            /\ json_files = {}
            /\ enriched \cup EnrichFailed = partitioned_dir)
    /\ [][chunked_dir' # chunked_dir => StageOf(pp_pc) \in {3, 4}]_vars
    /\ [][annotate_i' > annotate_i =>
            pp_pc \in {"cleanup", "annotate"} /\ chunked_files = {}]_vars
    /\ [](annotated # {} =>
            pp_pc \in {"annotate", "returned"} /\ chunked_files = {})

C20_Witness ==
    /\ pp_pc = "returned"
    /\ Len(pdf_files) = MaxPdfs
    /\ enriched = Batch
    /\ annotated = Batch
    /\ chunked_dir = {ChunkFile(f, 1) : f \in Batch}

\* The PDFs the annotation loop has passed without annotating them.
AnnotateFailed ==
    {pdf_files[i] : i \in 1..(annotate_i - 1)} \ annotated

\* C21: in the annotation stage every step takes the next PDF of the
\* batch, whether its annotation completed or failed, and stays in the
\* stage; no exception leaves process_pdfs from it; and when process_pdfs
\* returns every PDF has had its step, each one annotated unless its own
\* step failed.
C21_AnnotateFailureIsolated ==
    /\ [][pp_pc = "annotate" =>
            /\ pp_pc' \in {"annotate", "returned"}
            /\ annotate_i <= Len(pdf_files) =>
                 /\ pp_pc' = "annotate"
                 /\ annotate_i' = annotate_i + 1
                 /\ annotated \subseteq annotated'
                 /\ annotated' \subseteq annotated \cup {pdf_files[annotate_i]}
            /\ annotate_i > Len(pdf_files) => pp_pc' = "returned"]_vars
    /\ [](pp_pc = "returned" =>
            /\ annotate_i = Len(pdf_files) + 1
            /\ annotated \cup AnnotateFailed = Batch)

C21_Witness ==
    /\ pp_pc = "returned"
    /\ Len(pdf_files) = 3
    /\ AnnotateFailed = {1, 2}
    /\ annotated = {3}

\* C23 (as claimed): once cleanup_file_extensions has returned, no name in
\* 02_chunked ends in .json.json: the chunk file of every partition file
\* is there under its base name with a single .json, as are the files that
\* had a single .json before.
C23_NoDoubleExtensionLeft ==
    pp_pc \in {"annotate", "returned"} =>
      /\ \A name \in chunked_dir : ~EndsWithDoubleJson(name)
      /\ chunked_dir = {ChunkFile(f, 1) : f \in Batch}

\* ---- insert_product

\* C27: insert_product makes at most 3 attempts. An attempt whose select
\* finds the name returns the id of a row with that name and sends no
\* insert; an attempt whose select finds nothing inserts the product and
\* returns the id of the new row; an attempt that ends in an exception is
\* followed by the next attempt, and insert_product raises only when the
\* third attempt has failed too. The table changes only by the insert of an
\* attempt whose select found no row with the name.
C27_InsertProductRetries ==
    /\ [](/\ attempt \in 1..Attempts
          /\ failures = (IF ip_pc = "raised" THEN attempt ELSE attempt - 1)
          /\ ip_pc = "raised" => failures = Attempts
          /\ ip_pc = "insert" => existing_product = {}
          /\ ip_pc = "returned" =>
               /\ product_id \in DOMAIN products
               /\ products[product_id] = product_name)
    /\ [][/\ (ip_pc = "select" /\ Matching(products, product_name) # {}) =>
               \/ /\ ip_pc' = "returned"
                  /\ product_id' \in Matching(products, product_name)
                  /\ UNCHANGED <<products, inserts>>
               \/ /\ failures' = failures + 1
                  /\ UNCHANGED <<products, inserts>>
          /\ (ip_pc = "insert" /\ ip_pc' = "returned") =>
               /\ products' = Inserted(products, product_name)
               /\ product_id' = Len(products')
          /\ failures' = failures + 1 =>
               IF attempt < Attempts
               THEN attempt' = attempt + 1 /\ ip_pc' = "select"
               ELSE ip_pc' = "raised"
          /\ (products' # products \/ inserts' # inserts) =>
               /\ ip_pc = "insert"
               /\ Matching(products, product_name) = {}
               /\ existing_product = {}]_vars

\* The first attempt's insert stored the row but raised, the second
\* attempt's select raised, the third found the row and returned its id:
\* one insert was sent, the name is in the table once.
C27_Witness ==
    /\ ip_pc = "returned"
    /\ attempt = 3
    /\ failures = 2
    /\ inserts = 1
    /\ existing_product = {product_id}
    /\ Cardinality(Matching(products, product_name)) = 1

====
